---------------------------- MODULE Spec2Model ----------------------------
(***************************************************************************)
(* Session hub of ynoserver: admission of connections (Session.addClient), *)
(* the client registry (the sync.Map "clients"), the session-local id      *)
(* counter (Session.lastId) and the inbound protocol codec and dispatcher  *)
(* (Session.processMsgs, Session.processMsg).                              *)
(*                                                                         *)
(* addClient runs in the goroutine of each HTTP request and takes no lock: *)
(* every access to shared state (clients.Load, clients.Range, the reads    *)
(* and the write of lastId, clients.Store, the send on the client's        *)
(* channel) is a step of its own, and the steps of different connections   *)
(* interleave freely.                                                      *)
(*                                                                         *)
(* The scheduler's tick (initSession: getSessionClientsLen, then           *)
(* Session.broadcast) runs in a goroutine of its own, one step per Range   *)
(* call and per client visited.  The goroutines of a client (msgReader,    *)
(* msgProcessor, msgWriter), sendMsg and the teardown are not part of the  *)
(* sources at hand; they follow the specification's sections 4.5 and 5.    *)
(*                                                                         *)
(* Specifications: Spec (concurrent admissions), SpecIpLimit and           *)
(* SpecReject (four connections, the address limit and the rejections),    *)
(* SpecMsgs (one client's buffers), SpecPipeline (reader, channel,         *)
(* processor), SpecBroadcast (the tick next to admissions and a full       *)
(* channel), SpecTeardown (teardown and reconnection).                     *)
(***************************************************************************)
EXTENDS Integers, Sequences, FiniteSets, TLC

\* ------------------------------------------------------------- bounds --
\* Connections that arrive in the general specification.
NConns == 2
\* Frames per inbound buffer, and buffers one client sends.
MaxFrames == 2
MaxBufs == 2
\* Broadcast ticks of the scheduler.
MaxTicks == 2

\* ----------------------------------------------------- program constants
\* sameIp >= 3 rejects the connection.
MaxSameIp == 3
\* len(data) > 4096 rejects the buffer.
MaxSize == 4096
\* send: make(chan []byte, 16)
SendCap == 16
\* receive: make(chan []byte, 16)
RecvCap == 16
\* len(token[0]) == 32
TokenLen == 32

\* Connections of the address-limit scenario: one more than the limit.
IpConns == MaxSameIp + 1
LastConn == IF NConns > IpConns THEN NConns ELSE IpConns
AllConns == 1..LastConn
NoClient == 0

\* ------------------------------------------------ the identity store --
\* Tokens a peer may present in the query string.
Tok1 == "tok1aaaaaaaaaaaaaaaaaaaaaaaaaaaa"
Tok2 == "tok2aaaaaaaaaaaaaaaaaaaaaaaaaaaa"
Tok3 == "tok3aaaaaaaaaaaaaaaaaaaaaaaaaaaa"
TokBan == "tokbanaaaaaaaaaaaaaaaaaaaaaaaaaa"
TokUnknown == "tokunknownaaaaaaaaaaaaaaaaaaaaaa"
TokShort == "tok1aaaaaaaaaaaaaaaaaaaaaaaaaaa"
Tokens == {"", Tok1, Tok2, Tok3, TokBan, TokUnknown, TokShort}
\* The tokens of the concurrent specification: one of each outcome of the
\* lookup (absent, an account, a banned account, unresolved, wrong length).
SomeTokens == {"", Tok1, TokBan, TokUnknown, TokShort}
Ips == {"A", "B"}
Uuids == {"UA", "UB", "U1", "U2", "U3", "UX"}

\* getPlayerDataFromToken(token): (uuid, name, rank, badge, banned, muted).
\* An unknown token yields the zero values.  The store also resolves one
\* token of 31 characters, to a muted account of its own.
getPlayerDataFromToken(token) ==
    CASE token = Tok1 -> [uuid |-> "U1", name |-> "n1", rank |-> 1, badge |-> "b1",
                          banned |-> FALSE, muted |-> FALSE]
      [] token = TokShort -> [uuid |-> "U3", name |-> "n3", rank |-> 2, badge |-> "b3",
                              banned |-> FALSE, muted |-> TRUE]
      [] token = Tok2 -> [uuid |-> "U2", name |-> "n2", rank |-> 0, badge |-> "",
                          banned |-> FALSE, muted |-> TRUE]
      [] token = Tok3 -> [uuid |-> "U3", name |-> "n3", rank |-> 0, badge |-> "b3",
                          banned |-> FALSE, muted |-> FALSE]
      [] token = TokBan -> [uuid |-> "UX", name |-> "nx", rank |-> 0, badge |-> "",
                            banned |-> TRUE, muted |-> FALSE]
      [] OTHER -> [uuid |-> "", name |-> "", rank |-> 0, badge |-> "",
                   banned |-> FALSE, muted |-> FALSE]

\* getOrCreatePlayerData(ip): (uuid, banned, muted); one identity per address.
getOrCreatePlayerData(ip) ==
    IF ip = "A" THEN [uuid |-> "UA", banned |-> FALSE, muted |-> FALSE]
    ELSE [uuid |-> "UB", banned |-> TRUE, muted |-> TRUE]

\* -------------------------------------------------------------- state --
VARIABLES
    clients,    \* the registry: uuid -> the connection of the stored client
    lastId,     \* Session.lastId
    pc,         \* position of each connection's addClient call / its life
    client,     \* the SessionClient each connection's addClient builds
    local,      \* locals of each addClient call
    send,       \* client.send: frames queued for the writer
    connOpen,   \* the transport: TRUE until conn.Close()
    proc,       \* each client's processor: the processMsgs call in progress
    tasks,      \* the goroutines of each client that are running
    inbox,      \* client.receive, with what went in and what came out of it
    bcast       \* the scheduler's tick: getSessionClientsLen, then broadcast

vars == <<clients, lastId, pc, client, local, send, connOpen, proc, tasks,
          inbox, bcast>>

NewClient ==
    [ip |-> "", uuid |-> "", name |-> "", rank |-> 0, badge |-> "",
     account |-> FALSE, muted |-> FALSE, id |-> -1]

NewLocal ==
    [token |-> "", banned |-> FALSE, may |-> {}, must |-> {}, tmp |-> -1,
     reason |-> ""]

IdleProc == [at |-> "recv", nbufs |-> 0, data |-> <<>>, failing |-> {},
             errs |-> <<>>, calls |-> <<>>]

\* The goroutines addClient starts for a client.
Tasks == {"processor", "writer", "reader"}

\* client.receive (q), the buffers the reader put in (got) and the buffers
\* the processor took out (done), both in order.
EmptyInbox == [q |-> <<>>, got |-> <<>>, done |-> <<>>]

\* No tick in progress.  at: where the tick's function is; n: the value of
\* getSessionClientsLen(); seen: for each key the mappings it had during the
\* Range call in progress; visited: the keys the call has been through;
\* whole: the connections registered since the tick began; quiet: no Store
\* or Delete since the tick began; sent: the frames the tick queued for each
\* connection; full: the connections whose channel had no room for the
\* frame.
IdleTick(ticks) ==
    [at |-> "idle", ticks |-> ticks, n |-> -1,
     seen |-> [u \in Uuids |-> {}], visited |-> {}, whole |-> {},
     quiet |-> TRUE, sent |-> [c \in AllConns |-> <<>>], full |-> {}]

Init ==
    /\ clients = [u \in Uuids |-> NoClient]
    /\ lastId = 0
    /\ pc = [c \in AllConns |-> "new"]
    /\ client = [c \in AllConns |-> NewClient]
    /\ local = [c \in AllConns |-> NewLocal]
    /\ send = [c \in AllConns |-> <<>>]
    /\ connOpen = [c \in AllConns |-> TRUE]
    /\ proc = [c \in AllConns |-> IdleProc]
    /\ tasks = [c \in AllConns |-> {}]
    /\ inbox = [c \in AllConns |-> EmptyInbox]
    /\ bcast = IdleTick(0)

\* ------------------------------------------------------------ helpers --
\* A sendMsg that waits for room in the channel.
SendReturnsWithRoom(q) == Len(q) < SendCap

\* client.sendMsg(segments...): the frame is queued on client.send; a sender
\* never waits for a channel that holds SendCap frames, the frame is dropped.
\* SendReturns: whether the call returns with the channel as it is.
SendReturns(q) == TRUE
sendMsg(q, segments) == IF Len(q) < SendCap THEN Append(q, segments) ELSE q

\* sendMsg for each of frames, in order.
RECURSIVE SendAll(_, _)
SendAll(q, frames) ==
    IF frames = <<>> THEN q
    ELSE SendAll(sendMsg(q, Head(frames)), Tail(frames))

\* The registry entries whose client has address ip.
SameIpKeys(ip) == {u \in Uuids : clients[u] # NoClient /\ client[clients[u]].ip = ip}

\* clients.Store(uuid, d) and clients.Delete(uuid) as seen by the Range calls
\* in progress: sync.Map.Range visits every key once and may reflect any
\* mapping the key had during the call.  may: keys the call can count, must:
\* keys it cannot miss.
RangeAfterStore(u, d) ==
    [c \in AllConns |->
        IF pc[c] # "ranging" THEN local[c]
        ELSE IF client[d].ip = client[c].ip
             THEN [local[c] EXCEPT !.may = @ \cup {u}]
             ELSE [local[c] EXCEPT !.must = @ \ {u}]]

RangeAfterDelete(u) ==
    [c \in AllConns |->
        IF pc[c] # "ranging" THEN local[c]
        ELSE [local[c] EXCEPT !.must = @ \ {u}]]

\* The same for the Range call of the tick in progress, and for who has
\* been registered since the tick began.
TickAfterStore(u, d) ==
    IF bcast.at = "idle" THEN bcast
    ELSE [bcast EXCEPT !.seen[u] = @ \cup {d}, !.whole = @ \ {clients[u]},
                       !.quiet = FALSE]

TickAfterDelete(u) ==
    IF bcast.at = "idle" THEN bcast
    ELSE [bcast EXCEPT !.seen[u] = @ \cup {NoClient}, !.whole = @ \ {clients[u]},
                       !.quiet = FALSE]

\* ---------------------------------------------------------- admission --
\* A handleSession that passes on a token of any length.
playerTokenAnyLength(rawToken) == rawToken

\* The token handleSession passes on: the query's token when it has 32
\* characters, else none.
playerToken(rawToken) == IF Len(rawToken) = TokenLen THEN rawToken ELSE ""

\* The banned flag addClient ends up with: the token lookup's when the token
\* resolved to an identifier, else the address lookup's.
bannedOf(token, ip) ==
    LET t == getPlayerDataFromToken(token)
    IN IF token # "" /\ t.uuid # "" THEN t.banned ELSE getOrCreatePlayerData(ip).banned

\* The checks without the ban check.
rejectBeforeCountNoBan(banned, uuid) ==
    IF clients[uuid] # NoClient THEN "session already exists for uuid" ELSE ""

\* The checks before the count: the ban, then clients.Load(client.uuid).
\* "" lets the connection through.
rejectBeforeCount(banned, uuid) ==
    IF banned THEN "player is banned"
    ELSE IF clients[uuid] # NoClient THEN "session already exists for uuid"
    ELSE ""

\* handleSession and addClient up to clients.Load: the token filter, the
\* identity lookups, the ban check and the duplicate check.
AddClientBegin(c, ip, rawToken) ==
    /\ pc[c] = "new"
    /\ IF c = 1 THEN TRUE ELSE pc[c - 1] # "new"
    /\ LET token == playerToken(rawToken)
           t == getPlayerDataFromToken(token)
           byTok == token # "" /\ t.uuid # ""
           a == getOrCreatePlayerData(ip)
           uuid == IF byTok THEN t.uuid ELSE a.uuid
           banned == bannedOf(token, ip)
           cl == [ip |-> ip,
                  uuid |-> uuid,
                  name |-> IF token # "" THEN t.name ELSE "",
                  rank |-> IF token # "" THEN t.rank ELSE 0,
                  badge |-> IF token # "" THEN t.badge ELSE "",
                  account |-> byTok,
                  muted |-> IF byTok THEN t.muted ELSE a.muted,
                  id |-> -1]
           why == rejectBeforeCount(banned, uuid)
       IN /\ client' = [client EXCEPT ![c] = cl]
          /\ local' = [local EXCEPT ![c] = [NewLocal EXCEPT !.token = rawToken,
                                                            !.banned = banned,
                                                            !.reason = why]]
          /\ pc' = [pc EXCEPT ![c] = IF why # "" THEN "rejected" ELSE "range"]
    /\ UNCHANGED <<clients, lastId, send, connOpen, proc, tasks, inbox, bcast>>

\* clients.Range starts: the entries of the caller's address present now.
AddClientRange(c) ==
    /\ pc[c] = "range"
    /\ local' = [local EXCEPT ![c].may = SameIpKeys(client[c].ip),
                              ![c].must = SameIpKeys(client[c].ip)]
    /\ pc' = [pc EXCEPT ![c] = "ranging"]
    /\ UNCHANGED <<clients, lastId, client, send, connOpen, proc, tasks, inbox, bcast>>

\* An addClient that takes its id before it counts the address's clients.
AddClientCountAfterId(c) ==
    /\ pc[c] = "ranging"
    /\ \E keys \in SUBSET local[c].may :
          /\ local[c].must \subseteq keys
          /\ IF Cardinality(keys) >= MaxSameIp
             THEN /\ pc' = [pc EXCEPT ![c] = "rejected"]
                  /\ local' = [local EXCEPT ![c].reason = "too many connections from ip",
                                            ![c].may = {}, ![c].must = {}]
                  /\ lastId' = lastId + 1
                  /\ UNCHANGED client
             ELSE /\ pc' = [pc EXCEPT ![c] = "readid"]
                  /\ client' = [client EXCEPT ![c].badge =
                                    IF @ = "" THEN "null" ELSE @]
                  /\ local' = [local EXCEPT ![c].may = {}, ![c].must = {}]
                  /\ UNCHANGED lastId
    /\ UNCHANGED <<clients, send, connOpen, proc, tasks, inbox, bcast>>

\* clients.Range returns sameIp; sameIp >= 3 rejects; an empty badge
\* becomes "null".
AddClientCount(c) ==
    /\ pc[c] = "ranging"
    /\ \E keys \in SUBSET local[c].may :
          /\ local[c].must \subseteq keys
          /\ LET sameIp == Cardinality(keys)
             IN IF sameIp >= MaxSameIp
                THEN /\ pc' = [pc EXCEPT ![c] = "rejected"]
                     /\ local' = [local EXCEPT ![c].reason = "too many connections from ip",
                                               ![c].may = {}, ![c].must = {}]
                     /\ UNCHANGED client
                ELSE /\ pc' = [pc EXCEPT ![c] = "readid"]
                     /\ client' = [client EXCEPT ![c].badge =
                                       IF @ = "" THEN "null" ELSE @]
                     /\ local' = [local EXCEPT ![c].may = {}, ![c].must = {}]
    /\ UNCHANGED <<clients, lastId, send, connOpen, proc, tasks, inbox, bcast>>

\* client.id = s.lastId
AddClientReadId(c) ==
    /\ pc[c] = "readid"
    /\ client' = [client EXCEPT ![c].id = lastId]
    /\ pc' = [pc EXCEPT ![c] = "incread"]
    /\ UNCHANGED <<clients, lastId, local, send, connOpen, proc, tasks, inbox, bcast>>

\* s.lastId++ : the read
AddClientIncRead(c) ==
    /\ pc[c] = "incread"
    /\ local' = [local EXCEPT ![c].tmp = lastId]
    /\ pc' = [pc EXCEPT ![c] = "incwrite"]
    /\ UNCHANGED <<clients, lastId, client, send, connOpen, proc, tasks, inbox, bcast>>

\* s.lastId++ : the write
AddClientIncWrite(c) ==
    /\ pc[c] = "incwrite"
    /\ lastId' = local[c].tmp + 1
    /\ local' = [local EXCEPT ![c].tmp = -1]
    /\ pc' = [pc EXCEPT ![c] = "store"]
    /\ UNCHANGED <<clients, client, send, connOpen, proc, tasks, inbox, bcast>>

\* getPlayerGameData; clients.Store(client.uuid, client)
AddClientStore(c) ==
    /\ pc[c] = "store"
    /\ clients' = [clients EXCEPT ![client[c].uuid] = c]
    /\ local' = RangeAfterStore(client[c].uuid, c)
    /\ bcast' = TickAfterStore(client[c].uuid, c)
    /\ pc' = [pc EXCEPT ![c] = "hello"]
    /\ UNCHANGED <<lastId, client, send, connOpen, proc, tasks, inbox>>

\* The "s" frame of a new client.
HelloFrame(cl) == <<"s", cl.uuid, cl.rank, cl.account, cl.badge>>

\* client.sendMsg("s", ...); go msgProcessor, msgWriter, msgReader
AddClientHello(c) ==
    /\ pc[c] = "hello"
    /\ SendReturns(send[c])
    /\ send' = [send EXCEPT ![c] = sendMsg(@, HelloFrame(client[c]))]
    /\ tasks' = [tasks EXCEPT ![c] = Tasks]
    /\ pc' = [pc EXCEPT ![c] = "live"]
    /\ UNCHANGED <<clients, lastId, client, local, connOpen, proc, inbox, bcast>>

\* A teardown that closes the transport and leaves the registry as it is.
TeardownNoDelete(c) ==
    /\ pc[c] = "live"
    /\ proc[c].at = "recv"
    /\ connOpen' = [connOpen EXCEPT ![c] = FALSE]
    /\ pc' = [pc EXCEPT ![c] = "closed"]
    /\ UNCHANGED <<clients, lastId, client, local, send, proc, tasks, inbox, bcast>>

\* The reader or the writer of a live client ends and runs the teardown: the
\* transport is closed and the client's identifier is removed from the
\* registry.  The client's goroutines return one by one afterwards.
Teardown(c) ==
    /\ pc[c] = "live"
    /\ proc[c].at = "recv"
    /\ connOpen' = [connOpen EXCEPT ![c] = FALSE]
    /\ clients' = [clients EXCEPT ![client[c].uuid] = NoClient]
    /\ local' = RangeAfterDelete(client[c].uuid)
    /\ bcast' = TickAfterDelete(client[c].uuid)
    /\ pc' = [pc EXCEPT ![c] = "closed"]
    /\ UNCHANGED <<lastId, client, send, proc, tasks, inbox>>

\* A goroutine of a torn-down client finds its channel or its transport
\* closed and returns; the processor finishes the buffer it is in first.
StopTask(c, t) ==
    /\ pc[c] = "closed"
    /\ t \in tasks[c]
    /\ t = "processor" => proc[c].at = "recv"
    /\ tasks' = [tasks EXCEPT ![c] = @ \ {t}]
    /\ UNCHANGED <<clients, lastId, pc, client, local, send, connOpen, proc,
                   inbox, bcast>>

\* ------------------------------------------------------------- tick --
\* The entries of the registry, and the connections they hold.
Registered == {u \in Uuids : clients[u] # NoClient}
RegisteredConns == {clients[u] : u \in Registered}

\* The scheduler fires: getSessionClientsLen's Range call starts.
TickBegin ==
    /\ bcast.at = "idle"
    /\ bcast.ticks < MaxTicks
    /\ bcast' = [IdleTick(bcast.ticks + 1) EXCEPT
                    !.at = "count",
                    !.seen = [u \in Uuids |-> {clients[u]}],
                    !.whole = RegisteredConns]
    /\ UNCHANGED <<clients, lastId, pc, client, local, send, connOpen, proc,
                   tasks, inbox>>

\* getSessionClientsLen returns: a key counts with any mapping it had during
\* the call.  session.broadcast's Range call starts.
TickCount ==
    /\ bcast.at = "count"
    /\ \E keys \in SUBSET {u \in Uuids : bcast.seen[u] # {NoClient}} :
          /\ {u \in Uuids : NoClient \notin bcast.seen[u]} \subseteq keys
          /\ bcast' = [bcast EXCEPT !.at = "send",
                                    !.n = Cardinality(keys),
                                    !.seen = [u \in Uuids |-> {clients[u]}]]
    /\ UNCHANGED <<clients, lastId, pc, client, local, send, connOpen, proc,
                   tasks, inbox>>

\* The frame of a tick: its segments are evaluated once, before the Range.
TickFrame(b) == <<"pc", b.n>>

\* The Range callback for key u with client d, one of the mappings u had
\* during the call: d.sendMsg(segments...).
TickVisit(u, d) ==
    /\ bcast.at = "send"
    /\ u \notin bcast.visited
    /\ d \in bcast.seen[u] \ {NoClient}
    /\ SendReturns(send[d])
    /\ send' = [send EXCEPT ![d] = sendMsg(@, TickFrame(bcast))]
    /\ bcast' = [bcast EXCEPT
                    !.visited = @ \cup {u},
                    !.sent[d] = IF Len(send[d]) < SendCap
                                THEN Append(@, TickFrame(bcast)) ELSE @,
                    !.full = IF Len(send[d]) < SendCap THEN @ ELSE @ \cup {d}]
    /\ UNCHANGED <<clients, lastId, pc, client, local, connOpen, proc, tasks,
                   inbox>>

\* A Range call that may return before it has been through every key.
RangeDoneEarly(b) == TRUE

\* Range returns once it has been through every key that was mapped
\* throughout the call.
RangeDone(b) == \A u \in Uuids \ b.visited : NoClient \in b.seen[u]

\* session.broadcast returns; sendPartyUpdate; the tick is over.
TickEnd ==
    /\ bcast.at = "send"
    /\ RangeDone(bcast)
    /\ bcast' = IdleTick(bcast.ticks)
    /\ UNCHANGED <<clients, lastId, pc, client, local, send, connOpen, proc,
                   tasks, inbox>>

Tick ==
    \/ TickBegin
    \/ TickCount
    \/ \E u \in Uuids, d \in AllConns : TickVisit(u, d)
    \/ TickEnd

\* ----------------------------------------------------------- pipeline --
\* The writer of a live client takes the next frame off client.send and
\* writes it to the transport.
MsgWriter(c) ==
    /\ pc[c] = "live"
    /\ "writer" \in tasks[c]
    /\ send[c] # <<>>
    /\ send' = [send EXCEPT ![c] = Tail(@)]
    /\ UNCHANGED <<clients, lastId, pc, client, local, connOpen, proc, tasks,
                   inbox, bcast>>


\* -------------------------------------------------------------- codec --
\* The delimiters, in UTF-8: U+FFFF between fields, U+FFFE between messages.
delim == <<239, 191, 191>>
mdelim == <<239, 191, 190>>

\* The type tags of processMsg's switch, as bytes.
TagI == <<105>>
TagName == <<110, 97, 109, 101>>
TagPloc == <<112, 108, 111, 99>>
TagGSay == <<103, 115, 97, 121>>
TagPSay == <<112, 115, 97, 121>>
TagPt == <<112, 116>>
TagEp == <<101, 112>>
TagE == <<101>>

\* strings.Index(s[from:], sep), as a position of s; 0 when sep is absent.
Index(s, sep, from) ==
    LET hits == {i \in from..(Len(s) - Len(sep) + 1) :
                    \A j \in 1..Len(sep) : s[i + j - 1] = sep[j]}
    IN IF hits = {} THEN 0 ELSE CHOOSE i \in hits : \A k \in hits : i <= k

\* strings.Split(s, sep) for a non-empty sep: the pieces between the
\* occurrences of sep, found from the left; always at least one piece.
RECURSIVE SplitFrom(_, _, _)
SplitFrom(s, sep, from) ==
    LET i == Index(s, sep, from)
    IN IF i = 0 THEN <<SubSeq(s, from, Len(s))>>
       ELSE <<SubSeq(s, from, i - 1)>> \o SplitFrom(s, sep, i + Len(sep))

Split(s, sep) == SplitFrom(s, sep, 1)

\* unicode/utf8: the size of the sequence a first byte announces (0: the
\* byte starts no sequence) and the range its second byte must lie in.
Utf8Size(b) ==
    IF b >= 194 /\ b <= 223 THEN 2
    ELSE IF b >= 224 /\ b <= 239 THEN 3
    ELSE IF b >= 240 /\ b <= 244 THEN 4
    ELSE 0

Utf8Lo(b) == IF b = 224 THEN 160 ELSE IF b = 240 THEN 144 ELSE 128
Utf8Hi(b) == IF b = 237 THEN 159 ELSE IF b = 244 THEN 143 ELSE 191

\* utf8.Valid(p[from:]): ASCII bytes are skipped, every other byte must start
\* a complete, well-formed sequence.
RECURSIVE Utf8ValidFrom(_, _)
Utf8ValidFrom(p, from) ==
    LET high == {i \in from..Len(p) : p[i] >= 128}
    IN IF high = {} THEN TRUE
       ELSE LET i == CHOOSE k \in high : \A m \in high : k <= m
                size == Utf8Size(p[i])
            IN /\ size # 0
               /\ i + size - 1 <= Len(p)
               /\ p[i + 1] >= Utf8Lo(p[i]) /\ p[i + 1] <= Utf8Hi(p[i])
               /\ \A j \in 2..(size - 1) : p[i + j] >= 128 /\ p[i + j] <= 191
               /\ Utf8ValidFrom(p, i + size)

Utf8Valid(p) == Utf8ValidFrom(p, 1)

\* The validation without the byte check.
ValidationErrorNoByteCheck(data) ==
    IF Len(data) > MaxSize THEN "bad request size"
    ELSE IF ~Utf8Valid(data) THEN "invalid UTF-8"
    ELSE ""

\* The validation with the size limit one byte lower.
ValidationErrorAtLimit(data) ==
    IF Len(data) >= MaxSize THEN "bad request size"
    ELSE IF \E i \in 1..Len(data) : data[i] < 32 THEN "bad byte sequence"
    ELSE IF ~Utf8Valid(data) THEN "invalid UTF-8"
    ELSE ""

\* The validation at the head of processMsgs: the error that rejects the
\* buffer, "" when it passes.
ValidationError(data) ==
    IF Len(data) > MaxSize THEN "bad request size"
    ELSE IF \E i \in 1..Len(data) : data[i] < 32 THEN "bad byte sequence"
    ELSE IF ~Utf8Valid(data) THEN "invalid UTF-8"
    ELSE ""

\* The switch with the handlers of gsay and psay exchanged.
HandlerOfSwapped(tag) ==
    CASE tag = TagI -> "handleI"
      [] tag = TagName -> "handleName"
      [] tag = TagPloc -> "handlePloc"
      [] tag = TagGSay -> "handlePSay"
      [] tag = TagPSay -> "handleGSay"
      [] tag = TagPt -> "handlePt"
      [] tag = TagEp -> "handleEp"
      [] tag = TagE -> "handleE"
      [] OTHER -> ""

\* The handler processMsg's switch selects for a tag, "" for the default
\* case.
HandlerOf(tag) ==
    CASE tag = TagI -> "handleI"
      [] tag = TagName -> "handleName"
      [] tag = TagPloc -> "handlePloc"
      [] tag = TagGSay -> "handleGSay"
      [] tag = TagPSay -> "handlePSay"
      [] tag = TagPt -> "handlePt"
      [] tag = TagEp -> "handleEp"
      [] tag = TagE -> "handleE"
      [] OTHER -> ""

\* The error a handler reports when it fails.
HandlerError(h) == <<"handler error", h>>
UnknownType == <<"unknown message type">>
NoError == <<>>

\* The fallback frame queued whenever a handler fails.
PtFallbackAny(h, err) == IF h # "" /\ err # NoError THEN <<<<"pt", "null">>>> ELSE <<>>

\* The frame processMsg queues for the sender: ("pt", "null") when handlePt
\* fails.
PtFallback(h, err) == IF h = "handlePt" /\ err # NoError THEN <<<<"pt", "null">>>> ELSE <<>>

\* processMsg(msgStr, sender); fails: whether the handler called reports an
\* error.  err: the error returned, calls: the handlers invoked, sent: the
\* frames queued for the sender, logged: whether the 200 line is written.
processMsg(msgStr, fails) ==
    LET msgFields == Split(msgStr, delim)
    IN IF Len(msgFields) = 0
       THEN [err |-> NoError, calls |-> <<>>, sent |-> <<>>, logged |-> FALSE]
       ELSE LET h == HandlerOf(msgFields[1])
                err == IF h = "" THEN UnknownType
                       ELSE IF fails THEN HandlerError(h) ELSE NoError
            IN [err |-> err,
                calls |-> IF h = "" THEN <<>> ELSE <<[h |-> h, msg |-> msgStr]>>,
                sent |-> PtFallback(h, err),
                logged |-> err = NoError]

RECURSIVE Flatten(_)
Flatten(ss) == IF ss = <<>> THEN <<>> ELSE Head(ss) \o Flatten(Tail(ss))

IsError(e) == e # NoError

\* A loop that stops at the first message that fails.
RECURSIVE DispatchUntilError(_, _, _)
DispatchUntilError(msgs, failing, k) ==
    IF k > Len(msgs) THEN <<>>
    ELSE LET r == processMsg(msgs[k], k \in failing)
         IN IF r.err # NoError THEN <<r>>
            ELSE <<r>> \o DispatchUntilError(msgs, failing, k + 1)

DispatchAborting(data, failing) == DispatchUntilError(Split(data, mdelim), failing, 1)

\* A loop that goes through the messages from the last to the first.
DispatchReversed(data, failing) ==
    LET msgs == Split(data, mdelim)
    IN [k \in 1..Len(msgs) |->
           processMsg(msgs[Len(msgs) + 1 - k], (Len(msgs) + 1 - k) \in failing)]

\* The messages of a buffer that passed the validation, each handed to
\* processMsg in turn.
Dispatch(data, failing) ==
    LET msgs == Split(data, mdelim)
    IN [k \in 1..Len(msgs) |-> processMsg(msgs[k], k \in failing)]

\* processMsgs(sender, data); failing: the positions of the messages whose
\* handler fails.  errs: the errors returned.
processMsgs(data, failing) ==
    LET bad == ValidationError(data)
    IN IF bad # ""
       THEN [errs |-> <<<<bad>>>>, calls |-> <<>>, sent |-> <<>>, msgs |-> 0]
       ELSE LET r == Dispatch(data, failing)
            IN [errs |-> SelectSeq([k \in 1..Len(r) |-> r[k].err], IsError),
                calls |-> Flatten([k \in 1..Len(r) |-> r[k].calls]),
                sent |-> Flatten([k \in 1..Len(r) |-> r[k].sent]),
                msgs |-> Len(r)]

\* ------------------------------------------------------------- inputs --
Join(a, sep, b) == a \o sep \o b
Hi == <<104, 105>>
BadTag == <<98, 97, 100, 116, 97, 103>>

\* The messages a peer sends: one of each tag, an unknown tag, the empty
\* message, and messages with a control byte, a byte that starts no UTF-8
\* sequence, a cut UTF-8 sequence, and both a bad and a control byte.
Messages ==
    {TagI, Join(TagName, delim, Hi), Join(TagPloc, delim, Hi),
     Join(TagGSay, delim, Hi), Join(TagPSay, delim, Hi), TagPt, TagEp, TagE,
     Join(BadTag, delim, <<120>>), <<>>,
     Join(TagGSay, delim, <<10>>), Join(TagGSay, delim, <<255>>),
     Join(TagGSay, delim, <<195>>), Join(TagGSay, delim, <<255, 10>>)}

\* The messages that are put together into buffers of several messages.
Parts ==
    {Join(TagGSay, delim, Hi), TagPt, TagEp, Join(BadTag, delim, <<120>>), <<>>,
     Join(TagGSay, delim, <<10>>)}

\* The buffers of n of these messages.
RECURSIVE BuffersOf(_)
BuffersOf(n) ==
    IF n = 1 THEN Parts
    ELSE {Join(b, mdelim, m) : b \in BuffersOf(n - 1), m \in Parts}

\* A message filled with the letter a up to n bytes.
Pad(m, n) == m \o [i \in 1..(n - Len(m)) |-> 97]

\* The messages sent at the size limit and one byte above it.
LongMessages ==
    {Join(TagGSay, delim, Hi), Join(TagGSay, delim, <<10>>),
     Join(TagGSay, delim, <<255>>)}

Buffers ==
    Messages \cup UNION {BuffersOf(n) : n \in 1..MaxFrames}
      \cup {Pad(m, n) : m \in LongMessages, n \in {MaxSize, MaxSize + 1}}

\* The positions of the messages of a buffer for which processMsg calls a
\* handler: the calls that can fail.
HandledPositions(data) ==
    IF ValidationError(data) # "" THEN {}
    ELSE LET msgs == Split(data, mdelim)
         IN {k \in 1..Len(msgs) : HandlerOf(Split(msgs[k], delim)[1]) # ""}

\* ---------------------------------------------------------- processor --
\* A processor that drops the client when its buffer returns errors.
ProcessMsgsDropping(c, data, failing) ==
    /\ pc[c] = "live"
    /\ proc[c].at = "recv"
    /\ proc[c].nbufs < MaxBufs
    /\ \E r \in {processMsgs(data, failing)} :
          /\ send' = [send EXCEPT ![c] = SendAll(@, r.sent)]
          /\ proc' = [proc EXCEPT ![c] = [at |-> "log", nbufs |-> @.nbufs + 1,
                                          data |-> data, failing |-> failing,
                                          errs |-> r.errs, calls |-> r.calls]]
          /\ connOpen' = [connOpen EXCEPT ![c] = r.errs = <<>>]
          /\ clients' = [clients EXCEPT ![client[c].uuid] =
                             IF r.errs = <<>> THEN @ ELSE NoClient]
    /\ UNCHANGED <<lastId, pc, client, local, tasks, inbox, bcast>>

\* The processor of a live client calls processMsgs with a buffer.
RunProcessMsgs(c, data, failing) ==
    /\ pc[c] = "live"
    /\ proc[c].at = "recv"
    /\ proc[c].nbufs < MaxBufs
    /\ \E r \in {processMsgs(data, failing)} :
          /\ send' = [send EXCEPT ![c] = SendAll(@, r.sent)]
          /\ proc' = [proc EXCEPT ![c] = [at |-> "log", nbufs |-> @.nbufs + 1,
                                          data |-> data, failing |-> failing,
                                          errs |-> r.errs, calls |-> r.calls]]
    /\ UNCHANGED <<clients, lastId, pc, client, local, connOpen, tasks, bcast>>

\* The processor of a live client is handed a buffer as the reader reads it.
ProcessMsgs(c, data, failing) ==
    /\ RunProcessMsgs(c, data, failing)
    /\ UNCHANGED inbox

\* The reader of a live client reads a buffer from the transport and puts
\* it on client.receive; a buffer that finds the channel full is dropped.
MsgReader(c, data) ==
    /\ pc[c] = "live"
    /\ "reader" \in tasks[c]
    /\ Len(inbox[c].got) < MaxBufs
    /\ inbox' = [inbox EXCEPT ![c] =
                    IF Len(@.q) < RecvCap
                    THEN [@ EXCEPT !.q = Append(@, data), !.got = Append(@, data)]
                    ELSE @]
    /\ UNCHANGED <<clients, lastId, pc, client, local, send, connOpen, proc,
                   tasks, bcast>>

\* The receive on client.receive: the buffer put in first.
NextBuffer(q) == [data |-> Head(q), rest |-> Tail(q)]

\* The processor of a live client takes the next buffer off client.receive
\* and calls processMsgs with it.
MsgProcessor(c) ==
    /\ "processor" \in tasks[c]
    /\ inbox[c].q # <<>>
    /\ \E b \in {NextBuffer(inbox[c].q)} :
          /\ \E failing \in SUBSET HandledPositions(b.data) :
                RunProcessMsgs(c, b.data, failing)
          /\ inbox' = [inbox EXCEPT ![c].q = b.rest, ![c].done = Append(@, b.data)]

\* The processor logs the errors and waits for the next buffer.
LogErrs(c) ==
    /\ proc[c].at = "log"
    /\ proc' = [proc EXCEPT ![c] = [IdleProc EXCEPT !.nbufs = proc[c].nbufs]]
    /\ UNCHANGED <<clients, lastId, pc, client, local, send, connOpen, tasks,
                   inbox, bcast>>

AddClientStep(c) ==
    \/ AddClientRange(c)
    \/ AddClientCount(c)
    \/ AddClientReadId(c)
    \/ AddClientIncRead(c)
    \/ AddClientIncWrite(c)
    \/ AddClientStore(c)
    \/ AddClientHello(c)

Next ==
    \E c \in 1..NConns :
        \/ \E ip \in Ips, tok \in SomeTokens : AddClientBegin(c, ip, tok)
        \/ AddClientStep(c)
        \/ Teardown(c)

Spec == Init /\ [][Next]_vars

\* The address-limit scenario: IpConns connections from one address, each
\* with an identity of its own.
IpToken(c) == CASE c = 1 -> "" [] c = 2 -> Tok1 [] c = 3 -> Tok2 [] OTHER -> Tok3

NextIpLimit ==
    \E c \in 1..IpConns :
        \/ AddClientBegin(c, "A", IpToken(c))
        \/ AddClientStep(c)

SpecIpLimit == Init /\ [][NextIpLimit]_vars

\* One connection, any token, and the buffers it sends once admitted.
NextMsgs ==
    \/ \E ip \in Ips, tok \in {"", Tok1} : AddClientBegin(1, ip, tok)
    \/ AddClientStep(1)
    \/ \E data \in Buffers : \E failing \in SUBSET HandledPositions(data) :
          ProcessMsgs(1, data, failing)
    \/ LogErrs(1)
    \/ Teardown(1)

SpecMsgs == Init /\ [][NextMsgs]_vars

\* n messages m in one buffer.
RECURSIVE Repeat(_, _)
Repeat(m, n) == IF n = 1 THEN m ELSE Join(m, mdelim, Repeat(m, n - 1))

\* A buffer of pt messages: when each of them fails, their fallback frames
\* and the hello frame fill client.send.
PtFlood == Repeat(TagPt, SendCap - 1)

\* The peers of the scheduler scenario, both from one address.  Connection
\* 1 is anonymous; connection 2, an account, connects once 1 is admitted.
Arrive(c) ==
    /\ IF c = 1 THEN TRUE ELSE pc[1] = "live"
    /\ AddClientBegin(c, "A", IpToken(c))

\* The peer of connection c sends PtFlood, once, and every pt fails.
SendPtFlood(c) ==
    /\ proc[c].nbufs = 0
    /\ ProcessMsgs(c, PtFlood, HandledPositions(PtFlood))

\* The scheduler next to two admissions.  The peer of connection 1 stops
\* reading, so its writer is stalled for good, and sends PtFlood.  The
\* writer of connection 2 runs and its transport may fail.  The scheduler's
\* goroutine is always scheduled again.
NextBroadcast ==
    \/ \E c \in 1..2 : Arrive(c)
    \/ \E c \in 1..2 : AddClientStep(c)
    \/ Tick
    \/ SendPtFlood(1)
    \/ LogErrs(1)
    \/ MsgWriter(2)
    \/ Teardown(2)

SpecBroadcast == Init /\ [][NextBroadcast]_vars /\ WF_vars(Tick)

\* The buffers of the pipeline scenario: one message, and two orders of two.
PipeBuffers ==
    {Join(TagGSay, delim, Hi), Join(TagPt, mdelim, TagEp), Join(TagEp, mdelim, TagPt)}

\* One anonymous connection with its reader and its processor at work.
NextPipeline ==
    \/ AddClientBegin(1, "A", "")
    \/ AddClientStep(1)
    \/ \E data \in PipeBuffers : MsgReader(1, data)
    \/ MsgProcessor(1)
    \/ LogErrs(1)

SpecPipeline == Init /\ [][NextPipeline]_vars

\* Two connections of one anonymous identity: the second connects once the
\* first is admitted, and each one's transport may fail.  Every goroutine
\* of a client, and the scheduler's, is always scheduled again.
Reconnect(c) ==
    /\ IF c = 1 THEN TRUE ELSE pc[1] \in {"live", "closed"}
    /\ AddClientBegin(c, "A", "")

NextTeardown ==
    \/ \E c \in 1..2 : Reconnect(c)
    \/ \E c \in 1..2 : AddClientStep(c)
    \/ \E c \in 1..2 : Teardown(c)
    \/ \E c \in 1..2, t \in Tasks : StopTask(c, t)
    \/ Tick

SpecTeardown ==
    /\ Init /\ [][NextTeardown]_vars
    /\ \A c \in 1..2, t \in Tasks : WF_vars(StopTask(c, t))
    /\ WF_vars(Tick)

\* The rejections: three connections from address A with identities of
\* their own, and a fourth that is banned by its address or by its token,
\* or has the identity of the first, or is one too many for address A.
LastArrival(c, ip, tok) ==
    /\ c = IpConns
    /\ <<ip, tok>> \in {<<"B", "">>, <<"A", TokBan>>, <<"A", "">>, <<"A", Tok3>>}
    /\ AddClientBegin(c, ip, tok)

NextReject ==
    \/ \E c \in 1..(IpConns - 1) : AddClientBegin(c, "A", IpToken(c))
    \/ \E ip \in Ips, tok \in Tokens : LastArrival(IpConns, ip, tok)
    \/ \E c \in 1..IpConns : AddClientStep(c)

SpecReject == Init /\ [][NextReject]_vars

\* ------------------------------------------------------------- claims --
\* The connections whose addClient call passed every check.
Admitted == {c \in AllConns : pc[c] \in {"readid", "incread", "incwrite", "store", "hello", "live"}}
\* The connections with a running pipeline.
Live == {c \in AllConns : pc[c] = "live"}
\* The connections that were issued a session-local id.
WithId == {c \in AllConns : pc[c] \in {"incread", "incwrite", "store", "hello", "live", "closed"}}

HasHello(c) == \E i \in 1..Len(send[c]) : send[c][i][1] = "s"

\* C1: no two live Session Clients exist for the same identifier: of two
\* addClient calls that resolve to the same uuid at most one is admitted.
C1_OneClientPerUuid ==
    \A c, d \in Live : c # d => client[c].uuid # client[d].uuid

\* C2: for every address, at most 3 registered clients have that address.
C2_AtMostThreePerIp ==
    \A ip \in Ips : Cardinality(SameIpKeys(ip)) <= 3

\* C3: no two admitted clients are issued the same session-local id (stated
\* for clients of different identifiers, which the duplicate check never
\* keeps apart).
C3_DistinctIds ==
    \A c, d \in WithId :
        (c # d /\ client[c].uuid # client[d].uuid) => client[c].id # client[d].id

\* The banned flag of the lookup the claim names: by token, or by address
\* when the token (of 32 characters) resolves to no identifier.
ReportedBanned(c) ==
    LET tok == local[c].token
        t == getPlayerDataFromToken(tok)
    IN IF Len(tok) = 32 /\ t.uuid # "" THEN t.banned
       ELSE getOrCreatePlayerData(client[c].ip).banned

\* C4: a connection whose identity lookup reports banned is never stored in
\* the registry and no hello frame is ever queued for it.
C4_BannedNeverAdmitted ==
    \A c \in AllConns :
        (pc[c] # "new" /\ ReportedBanned(c)) =>
            /\ \A u \in Uuids : clients[u] # c
            /\ ~HasHello(c)
            /\ c \notin Admitted

\* A connection banned by its address (its token resolved to nothing) was
\* rejected while another client is live.
C4_Witness ==
    \E c, d \in AllConns :
        /\ pc[c] = "rejected" /\ ReportedBanned(c) /\ local[c].token = TokUnknown
        /\ pc[d] = "live"

\* C5: every rejected admission ends with the transport closed and with no
\* frame sent to the peer.
C5_RejectedIsClosed ==
    \A c \in AllConns :
        pc[c] = "rejected" => (~connOpen[c] /\ send[c] = <<>>)

\* ---- the codec and the dispatcher, as the specification states them ----
\* A buffer the validation must reject.
Rejectable(data) ==
    \/ Len(data) > 4096
    \/ \E i \in 1..Len(data) : data[i] < 32
    \/ ~Utf8Valid(data)

ValidationErrors == {<<"bad request size">>, <<"bad byte sequence">>, <<"invalid UTF-8">>}

\* Connection c's processor has just returned from processMsgs.
Returned(c) == proc[c].at = "log"
\* This step is connection c's call of processMsgs.
Calls(c) == proc[c].at = "recv" /\ proc'[c].at = "log"

\* C6: a buffer longer than 4096 bytes, or with a byte < 32, or that is not
\* valid UTF-8 is rejected wholesale: no handler is invoked, no frame is
\* queued, and exactly one validation error is returned.
C6_RejectedWholesale ==
    [][\A c \in AllConns :
          (Calls(c) /\ \E data \in {proc'[c].data} : Rejectable(data)) =>
              /\ proc'[c].calls = <<>>
              /\ send'[c] = send[c]
              /\ Len(proc'[c].errs) = 1
              /\ proc'[c].errs[1] \in ValidationErrors]_vars

\* A buffer with a gsay message and a control byte came back rejected.
C6_Witness ==
    \E c \in Live :
        /\ Returned(c)
        /\ proc[c].data = Join(TagGSay, delim, <<10>>)
        /\ proc[c].errs = <<<<"bad byte sequence">>>>

\* A buffer above the size limit, and one that is not UTF-8, came back rejected.
C6_WitnessSize == \E c \in Live : Returned(c) /\ Len(proc[c].data) > 4096
C6_WitnessUtf8 ==
    \E c \in Live : Returned(c) /\ proc[c].errs = <<<<"invalid UTF-8">>>>

IsPrefix(s, t) == Len(s) <= Len(t) /\ SubSeq(t, 1, Len(s)) = s

\* C7: a buffer that returns errors (a validation error or errors of single
\* messages) never closes the connection and never changes the registry:
\* the sender stays registered and live, what was queued for it stays
\* queued, and once the errors are logged the processor waits for the next
\* buffer as it did before.
C7_ErrorsKeepConnection ==
    [][\A c \in AllConns :
          /\ (Calls(c) /\ proc'[c].errs # <<>>) =>
                /\ clients' = clients /\ clients'[client[c].uuid] = c
                /\ connOpen' = connOpen /\ connOpen'[c]
                /\ pc' = pc /\ pc'[c] = "live"
                /\ IsPrefix(send[c], send'[c])
          /\ (Returned(c) /\ proc[c].errs # <<>> /\ proc'[c] # proc[c]) =>
                /\ proc'[c] = [IdleProc EXCEPT !.nbufs = proc[c].nbufs]
                /\ clients' = clients /\ connOpen' = connOpen
                /\ pc' = pc /\ send' = send]_vars

\* A second buffer of a client came back with errors, the client still
\* registered and its connection open.
C7_Witness ==
    \E c \in Live :
        /\ Returned(c) /\ proc[c].nbufs = 2 /\ proc[c].errs # <<>>
        /\ clients[client[c].uuid] = c /\ connOpen[c]

\* The tags with a handler, and the handler of each.
KnownTags == {TagI, TagName, TagPloc, TagGSay, TagPSay, TagPt, TagEp, TagE}
RouteTable ==
    {<<TagI, "handleI">>, <<TagName, "handleName">>, <<TagPloc, "handlePloc">>,
     <<TagGSay, "handleGSay">>, <<TagPSay, "handlePSay">>, <<TagPt, "handlePt">>,
     <<TagEp, "handleEp">>, <<TagE, "handleE">>}

RouteOf(tag) == (CHOOSE r \in RouteTable : r[1] = tag)[2]

\* The messages of a buffer and the tag of a message.
MessagesOf(data) == Split(data, mdelim)
TagOf(msg) == Split(msg, delim)[1]

\* The errors the claim expects of messages k.. of a buffer, in order: one
\* for each unknown tag, one for each handler that fails.
RECURSIVE ExpectedErrs(_, _, _)
ExpectedErrs(msgs, failing, k) ==
    IF k > Len(msgs) THEN <<>>
    ELSE (IF TagOf(msgs[k]) \notin KnownTags THEN <<<<"unknown message type">>>>
          ELSE IF k \in failing THEN <<HandlerError(RouteOf(TagOf(msgs[k])))>>
          ELSE <<>>) \o ExpectedErrs(msgs, failing, k + 1)

\* C8: every message of a buffer that passes the validation is dispatched,
\* whether or not earlier ones failed, and the errors returned are exactly
\* one per failing message, in message order.
C8_EveryMessageDispatched ==
    \A c \in AllConns :
        (Returned(c) /\ ~Rejectable(proc[c].data)) =>
            LET msgs == MessagesOf(proc[c].data)
                known == {k \in 1..Len(msgs) : TagOf(msgs[k]) \in KnownTags}
            IN /\ Len(proc[c].calls) = Cardinality(known)
               /\ proc[c].errs = ExpectedErrs(msgs, proc[c].failing, 1)

\* The handler of the first of two messages failed and the second was
\* dispatched all the same.
C8_Witness ==
    \E c \in Live :
        /\ Returned(c) /\ proc[c].failing = {1}
        /\ Len(proc[c].calls) = 2 /\ Len(proc[c].errs) = 1

\* gsay, then an unknown tag: gsay is dispatched, one error is returned.
C8_ScenarioB ==
    \E c \in Live :
        /\ Returned(c)
        /\ proc[c].data = Join(Join(TagGSay, delim, Hi), mdelim, Join(BadTag, delim, <<120>>))
        /\ proc[c].failing = {}
        /\ Len(proc[c].calls) = 1 /\ proc[c].calls[1].h = "handleGSay"
        /\ proc[c].errs = <<<<"unknown message type">>>>

\* The handlers the claim expects to be invoked for messages k.., in order:
\* the one handler the table gives for the tag, none for any other tag.
RECURSIVE ExpectedCalls(_, _)
ExpectedCalls(msgs, k) ==
    IF k > Len(msgs) THEN <<>>
    ELSE LET rows == {r \in RouteTable : r[1] = TagOf(msgs[k])}
         IN (IF rows = {} THEN <<>>
             ELSE <<[h |-> (CHOOSE r \in rows : TRUE)[2], msg |-> msgs[k]]>>)
            \o ExpectedCalls(msgs, k + 1)

IsUnknownType(e) == e = <<"unknown message type">>

\* C9: each message is routed by its first field to exactly one handler: a
\* message with one of the eight tags invokes the handler of that tag once
\* and no other, any other tag invokes no handler and returns "unknown
\* message type"; identical messages are routed identically.
C9_RoutedByTag ==
    \A c \in AllConns :
        (Returned(c) /\ ~Rejectable(proc[c].data)) =>
            LET msgs == MessagesOf(proc[c].data)
                unknown == {k \in 1..Len(msgs) : TagOf(msgs[k]) \notin KnownTags}
            IN /\ proc[c].calls = ExpectedCalls(msgs, 1)
               /\ Len(SelectSeq(proc[c].errs, IsUnknownType)) = Cardinality(unknown)

\* The same gsay message twice in one buffer: handleGSay was invoked twice.
C9_Witness ==
    \E c \in Live :
        /\ Returned(c)
        /\ proc[c].data = Join(Join(TagGSay, delim, Hi), mdelim, Join(TagGSay, delim, Hi))
        /\ Len(proc[c].calls) = 2
        /\ proc[c].calls[1].h = "handleGSay" /\ proc[c].calls[2].h = "handleGSay"

\* A message with an unknown tag invoked nothing and returned the error.
C9_WitnessUnknown ==
    \E c \in Live :
        /\ Returned(c) /\ proc[c].data = Join(BadTag, delim, <<120>>)
        /\ proc[c].calls = <<>> /\ proc[c].errs = <<<<"unknown message type">>>>

IsPtError(e) == e = HandlerError("handlePt")

C10_WitnessOther ==
    \E c \in Live :
        /\ Returned(c)
        /\ proc[c].data = Join(TagPt, mdelim, TagEp) /\ proc[c].failing = {2}
        /\ Len(send[c]) = 1 /\ Len(proc[c].errs) = 1

\* C11: a frame that carries no fields is a no-op: an empty message of a
\* buffer (an empty buffer, a trailing or a doubled message delimiter)
\* invokes no handler and adds no error to the errors returned.
C11_EmptyFrameNoOp ==
    \A c \in AllConns :
        (Returned(c) /\ ~Rejectable(proc[c].data)) =>
            LET msgs == MessagesOf(proc[c].data)
                unknown == {k \in 1..Len(msgs) :
                               msgs[k] # <<>> /\ TagOf(msgs[k]) \notin KnownTags}
            IN /\ \A i \in 1..Len(proc[c].calls) : proc[c].calls[i].msg # <<>>
               /\ Len(SelectSeq(proc[c].errs, IsUnknownType)) = Cardinality(unknown)

\* The lookups the claim names, for the token the peer supplied.
Resolved(c) ==
    Len(local[c].token) = 32 /\ getPlayerDataFromToken(local[c].token).uuid # ""

\* C16: the account flag is true exactly when a token of 32 characters was
\* supplied and the store resolved it to a non-empty identifier; a token of
\* any other length leaves the client as an absent token does; whenever no
\* identifier was resolved from a token, the identifier, the banned flag and
\* the muted flag are those of the lookup by address.
C16_AccountIffResolved ==
    \A c \in AllConns :
        pc[c] # "new" =>
            LET t == getPlayerDataFromToken(local[c].token)
                a == getOrCreatePlayerData(client[c].ip)
            IN /\ client[c].account = Resolved(c)
               /\ Resolved(c) =>
                     /\ client[c].uuid = t.uuid
                     /\ local[c].banned = t.banned
                     /\ client[c].muted = t.muted
               /\ ~Resolved(c) =>
                     /\ client[c].uuid = a.uuid
                     /\ local[c].banned = a.banned
                     /\ client[c].muted = a.muted
               /\ Len(local[c].token) # 32 =>
                     /\ client[c].name = "" /\ client[c].rank = 0
                     /\ client[c].badge \in {"", "null"}

\* A token of 31 characters that the store knows went through as an absent
\* one, next to a client admitted by its account.
C16_Witness ==
    \E c, d \in Live :
        /\ local[c].token = TokShort /\ ~client[c].account
        /\ client[c].uuid = "UA" /\ client[c].badge = "null"
        /\ local[d].token = Tok1 /\ client[d].account /\ client[d].uuid = "U1"

\* A token of 32 characters the store does not know: the identity is the
\* address's.
C16_WitnessUnknown ==
    \E c \in Live : local[c].token = TokUnknown /\ ~client[c].account /\ client[c].uuid = "UA"

\* The error the claim's precedence gives a buffer, none when it passes.
ExpectedRejection(data) ==
    IF Len(data) > 4096 THEN <<<<"bad request size">>>>
    ELSE IF \E i \in 1..Len(data) : data[i] < 32 THEN <<<<"bad byte sequence">>>>
    ELSE IF ~Utf8Valid(data) THEN <<<<"invalid UTF-8">>>>
    ELSE <<>>

IsValidationError(e) == e \in ValidationErrors

\* C20: a rejected buffer returns exactly one error, by precedence: "bad
\* request size" above 4096 bytes whatever the bytes, else "bad byte
\* sequence" for a byte < 32, else "invalid UTF-8"; a buffer of exactly 4096
\* bytes, all >= 32 and valid UTF-8, is not rejected.
C20_ErrorPrecedence ==
    \A c \in AllConns :
        Returned(c) =>
            \A data \in {proc[c].data} :
               \A want \in {ExpectedRejection(data)} :
                  /\ want # <<>> => proc[c].errs = want
                  /\ want = <<>> => SelectSeq(proc[c].errs, IsValidationError) = <<>>
                  /\ (Len(data) = 4096 /\ want = <<>>) => proc[c].calls # <<>>

\* A buffer of 4097 bytes with a control byte came back with the size error.
C20_Witness ==
    \E c \in Live :
        /\ Returned(c)
        /\ Len(proc[c].data) = 4097
        /\ \E i \in 1..Len(proc[c].data) : proc[c].data[i] < 32
        /\ proc[c].errs = <<<<"bad request size">>>>

\* A control byte after a byte that is not UTF-8: the byte error.
C20_WitnessByte ==
    \E c \in Live :
        /\ Returned(c) /\ proc[c].data = Join(TagGSay, delim, <<255, 10>>)
        /\ proc[c].errs = <<<<"bad byte sequence">>>>

\* A buffer of exactly 4096 valid bytes was dispatched.
C20_WitnessAtLimit ==
    \E c \in Live :
        /\ Returned(c) /\ Len(proc[c].data) = 4096
        /\ proc[c].errs = <<>> /\ Len(proc[c].calls) = 1

\* This step ends a tick.
TickDone == bcast.at = "send" /\ bcast'.at = "idle"

C12_WitnessRoom ==
    /\ bcast.at = "send" /\ RangeDone(bcast) /\ bcast.quiet
    /\ bcast.sent[1] = <<<<"pc", 2>>>> /\ bcast.sent[2] = <<<<"pc", 2>>>>

C19_HelloFirst ==
    \A c \in AllConns : pc[c] \notin {"live", "closed"} => send[c] = <<>>

\* C14: the frames of one client are dispatched in the order received: the
\* buffers the processor has taken are the first ones the reader put in,
\* in that order, the others wait in that order; the handlers a buffer
\* invoked are those of its messages in their order of appearance.
C14_DispatchedInOrder ==
    \A c \in AllConns :
        /\ inbox[c].got = inbox[c].done \o inbox[c].q
        /\ (Returned(c) /\ inbox[c].done # <<>>) =>
              /\ proc[c].data = inbox[c].done[Len(inbox[c].done)]
              /\ proc[c].calls = ExpectedCalls(MessagesOf(proc[c].data), 1)
              /\ proc[c].errs =
                    ExpectedErrs(MessagesOf(proc[c].data), proc[c].failing, 1)

\* Two different buffers were read before the first was taken; both have
\* been processed, the second one's messages ep then pt.
C14_Witness ==
    \E c \in Live :
        /\ Returned(c)
        /\ inbox[c].got = <<Join(TagPt, mdelim, TagEp), Join(TagEp, mdelim, TagPt)>>
        /\ inbox[c].done = inbox[c].got
        /\ Len(proc[c].calls) = 2
        /\ proc[c].calls[1].h = "handleEp" /\ proc[c].calls[2].h = "handlePt"

\* Two buffers wait in client.receive.
C14_WitnessQueued == \E c \in Live : Len(inbox[c].q) = 2 /\ inbox[c].q[1] # inbox[c].q[2]

C15_WitnessBroadcast ==
    \E c \in AllConns : pc[c] = "closed" /\ bcast.at = "send" /\ bcast.sent[c] # <<>>

\* This step is the clients.Store of connection c, and this one its sendMsg
\* of the hello frame.
Stores(c) == pc[c] = "store" /\ pc'[c] = "hello"
Greets(c) == pc[c] = "hello" /\ pc'[c] = "live"

\* C17: every successful admission makes the registry one entry larger and
\* queues exactly one hello frame ("s", uuid, rank, account, badge) for the
\* new client, its badge never empty.
C17_AdmissionAddsOne ==
    [][\A c \in AllConns :
          /\ Stores(c) =>
                /\ Cardinality(Registered') = Cardinality(Registered) + 1
                /\ clients'[client[c].uuid] = c
          /\ Greets(c) =>
                /\ send'[c] = Append(send[c], <<"s", client[c].uuid, client[c].rank,
                                                 client[c].account, client[c].badge>>)
                /\ client[c].badge # ""]_vars

\* The shared state: the registry, Session.lastId, every client's channel
\* and goroutines.
Shared == <<clients, lastId, send, tasks>>

\* C18: a rejected addClient call leaves the shared state unchanged: no
\* step of a call up to its rejection changes the registry, lastId, any
\* channel or any goroutine, and the rejected connection has no id, no
\* frame, no goroutine and no entry.
C18_RejectionChangesNothing ==
    [][\A c \in AllConns :
          /\ (pc'[c] # pc[c] /\ pc'[c] \in {"range", "ranging", "rejected"}) =>
                Shared' = Shared
          /\ pc'[c] = "rejected" =>
                /\ client'[c].id = -1 /\ send'[c] = <<>> /\ tasks'[c] = {}
                /\ \A u \in Uuids : clients'[u] # c]_vars

\* The fourth connection from address A was rejected for the address's
\* count while the three before it are live.
C18_Witness ==
    /\ pc[IpConns] = "rejected"
    /\ local[IpConns].reason = "too many connections from ip"
    /\ \A c \in 1..(IpConns - 1) : pc[c] = "live"
    /\ lastId = 3 /\ Cardinality(Registered) = 3

\* It was rejected as banned, and as a second session of an identifier.
C18_WitnessBanned ==
    pc[IpConns] = "rejected" /\ local[IpConns].reason = "player is banned" /\ pc[1] = "live"
C18_WitnessDuplicate ==
    /\ pc[IpConns] = "rejected" /\ pc[1] = "live"
    /\ local[IpConns].reason = "session already exists for uuid"
=============================================================================
